---------------------------- MODULE Spec2Model ----------------------------
(***************************************************************************)
(* A model of simple_crawler (src/crawler.py): the crawl engine with its   *)
(* URL identity, seen set, scope policy, LIFO frontier and URL store.      *)
(*                                                                         *)
(* Strings are sequences of one-character strings, so that urldefrag,      *)
(* urlparse, urljoin and the file-name escaping are computed character by  *)
(* character.  The HTTP transport, the HTML parser and the robots.txt      *)
(* download are the environment: each fetch draws its response (failure,   *)
(* or a Content-Type header and the elements of the document) from the     *)
(* small sets of the site being crawled.                                   *)
(*                                                                         *)
(* The file system is assumed to work: os.makedirs, open and write do not  *)
(* fail (the source leaves such failures unhandled).                       *)
(***************************************************************************)
EXTENDS Naturals, Sequences, FiniteSets

VARIABLES
    root_url,       \* the root_url argument of Crawler.__init__
    site,           \* which site the environment serves
    domain,         \* Crawler._domain
    robots_url,     \* the URL _init_robots asked for, empty when it never ran
    robots,         \* Crawler._robots: the parsed robots.txt
    store_dirs,     \* the directories URLStore.__init__ has made
    index_open,     \* whether URLStore._index_file is open
    index_csv,      \* the rows of index.csv, in write order
    files,          \* the files directory: path -> the URL whose content it holds
    seen_urls,      \* SeenURLs._urls
    urls_to_visit,  \* Crawler._urls_to_visit, a LIFO queue: the top is the last
    log,            \* the events the logger received, in order
    resp,           \* what the transport answered to the last _fetch_page
    owed,           \* the URLs that waited in the frontier when a fetch failed
                    \* and have not been taken from it since
    linked,         \* the URLs that links of the documents fetched so far, at a
                    \* depth under MAX_DEPTH, resolve to within the domain and
                    \* the robots rules
    pc              \* where the program is

vars == <<root_url, site, domain, robots_url, robots, store_dirs, index_open, index_csv,
          files, seen_urls, urls_to_visit, log, resp, owed, linked, pc>>

-----------------------------------------------------------------------------
(* Bounds of the model *)

\* the largest number of link-bearing elements on one page
MaxLinks == 2

(* Program constants *)

\* Crawler.MAX_DEPTH
MAX_DEPTH == 100

-----------------------------------------------------------------------------
(* Strings *)

HTTP == <<"h", "t", "t", "p">>
FILES == <<"f", "i", "l", "e", "s">>
INDEX_CSV == <<"i", "n", "d", "e", "x", ".", "c", "s", "v">>
ROBOTS_TXT == <<"/", "r", "o", "b", "o", "t", "s", ".", "t", "x", "t">>
TEXT_HTML == <<"t", "e", "x", "t", "/", "h", "t", "m", "l">>

\* str.find: the first position of character c in s, 0 when there is none
Find(s, c) ==
    IF \E i \in 1..Len(s) : s[i] = c
    THEN CHOOSE i \in 1..Len(s) : s[i] = c /\ \A j \in 1..(i - 1) : s[j] # c
    ELSE 0

\* str.rfind: the last position of character c in s, 0 when there is none
RFind(s, c) ==
    IF \E i \in 1..Len(s) : s[i] = c
    THEN CHOOSE i \in 1..Len(s) : s[i] = c /\ \A j \in (i + 1)..Len(s) : s[j] # c
    ELSE 0

\* str.startswith
StartsWith(s, p) == Len(p) <= Len(s) /\ SubSeq(s, 1, Len(p)) = p

\* s[i:], with positions counted from 1
From(s, i) == SubSeq(s, i, Len(s))

\* the in operator on strings: p occurs somewhere in s
Contains(s, p) == \E i \in 1..(Len(s) + 1) : StartsWith(From(s, i), p)

\* str.replace(old, new) for a one-character old: every occurrence, left to right
RECURSIVE Replace(_, _, _)
Replace(s, old, new) ==
    IF s = <<>> THEN <<>>
    ELSE (IF Head(s) = old THEN new ELSE <<Head(s)>>) \o Replace(Tail(s), old, new)

\* os.path.join of two relative paths
PathJoin(a, b) == a \o <<"/">> \o b

-----------------------------------------------------------------------------
(* urllib.parse, on the URLs of the model: no query, no parameters, no dot *)
(* segments and no empty path segments.                                    *)

\* the characters a scheme is made of (letters; the model has no digits)
SchemeChars == {"h", "t", "p", "s", "f", "a", "b", "o", "x", "i", "l", "e"}

\* urlsplit's scheme test: the position of a ':' with only scheme characters
\* before it, 0 when the URL has no scheme
SchemeEnd(url) ==
    IF Find(url, ":") > 1 /\ \A i \in 1..(Find(url, ":") - 1) : url[i] \in SchemeChars
    THEN Find(url, ":")
    ELSE 0

\* urlsplit's _splitnetloc: where the netloc ends, at the first '/' or '#'
NetlocEnd(s) ==
    IF \E i \in 1..Len(s) : s[i] \in {"/", "#"}
    THEN CHOOSE i \in 1..Len(s) :
             s[i] \in {"/", "#"} /\ \A j \in 1..(i - 1) : s[j] \notin {"/", "#"}
    ELSE Len(s) + 1

\* urlsplit raises ValueError("Invalid IPv6 URL") for an unmatched bracket
BracketError(netloc) == (Find(netloc, "[") > 0) # (Find(netloc, "]") > 0)

\* urlsplit, last step: the fragment is what follows the '#' at position f
urlsplit_fragment(scheme, netloc, rest, f) ==
    [err |-> BracketError(netloc),
     scheme |-> scheme,
     netloc |-> netloc,
     path |-> IF f = 0 THEN rest ELSE SubSeq(rest, 1, f - 1),
     fragment |-> IF f = 0 THEN <<>> ELSE From(rest, f + 1)]

urlsplit_path(scheme, netloc, rest) ==
    urlsplit_fragment(scheme, netloc, rest, Find(rest, "#"))

\* urlsplit, second step: after '//' comes the netloc, up to position e
urlsplit_netloc_at(scheme, rest, e) ==
    urlsplit_path(scheme, SubSeq(rest, 1, e - 1), From(rest, e))

urlsplit_netloc(scheme, rest) ==
    IF StartsWith(rest, <<"/", "/">>)
    THEN urlsplit_netloc_at(scheme, From(rest, 3), NetlocEnd(From(rest, 3)))
    ELSE urlsplit_path(scheme, <<>>, rest)

\* urlsplit, first step: the scheme is what precedes the ':' at position c
urlsplit_scheme(url, c) == urlsplit_netloc(SubSeq(url, 1, c - 1), From(url, c + 1))

\* urlparse(url): scheme, netloc, path and fragment; err when it raises ValueError
urlparse(url) == urlsplit_scheme(url, SchemeEnd(url))

\* urlunparse, for the http scheme
urlunparse(scheme, netloc, path, fragment) ==
    (IF scheme # <<>> THEN scheme \o <<":">> ELSE <<>>)
    \o (IF netloc # <<>> \/ scheme = HTTP THEN <<"/", "/">> \o netloc ELSE <<>>)
    \o path
    \o (IF fragment # <<>> THEN <<"#">> \o fragment ELSE <<>>)

\* urldefrag(url)[0]: the URL without its fragment
urldefrag_at(url, i) == IF i = 0 THEN url ELSE SubSeq(url, 1, i - 1)

urldefrag(url) == urldefrag_at(url, Find(url, "#"))

\* the value element.get(attribute) returns for an element without the attribute
None == <<"None">>

\* urljoin, once base and url are parsed into b and u and the scheme is known
urljoin_parts(url, b, u, scheme) ==
    IF scheme # b.scheme \/ scheme # HTTP THEN url
    ELSE IF u.netloc # <<>> THEN urlunparse(scheme, u.netloc, u.path, u.fragment)
    ELSE IF u.path = <<>> THEN urlunparse(scheme, b.netloc, b.path, u.fragment)
    ELSE IF Head(u.path) = "/" THEN urlunparse(scheme, b.netloc, u.path, u.fragment)
    ELSE urlunparse(scheme, b.netloc,
                    SubSeq(b.path, 1, RFind(b.path, "/")) \o u.path, u.fragment)

urljoin_parsed(url, b, u) ==
    IF b.err \/ u.err THEN [err |-> TRUE, url |-> <<>>]
    ELSE [err |-> FALSE,
          url |-> urljoin_parts(url, b, u, IF u.scheme = <<>> THEN b.scheme ELSE u.scheme)]

\* urljoin(base, url): err when it raises ValueError
urljoin(base, url) ==
    IF url = None \/ url = <<>> THEN [err |-> FALSE, url |-> base]
    ELSE urljoin_parsed(url, urlparse(base), urlparse(url))

-----------------------------------------------------------------------------
(* class CrawlerURL *)

\* CrawlerURL.__init__ had it kept the fragment
CrawlerURL_KeepFragment(url, depth) == [url |-> url, depth |-> depth]

\* CrawlerURL.__init__: the URL without its fragment, and the depth
CrawlerURL(url, depth) == [url |-> urldefrag(url), depth |-> depth]

\* CrawlerURL.make_child_url had it built the child with the joined URL as it is
make_child_url_KeepFragment(self, url) ==
    LET joined == urljoin(self.url, url)
    IN  [err |-> joined.err, cu |-> [url |-> joined.url, depth |-> self.depth + 1]]

\* CrawlerURL.make_child_url had it given the child its parent's depth
make_child_url_SameDepth(self, url) ==
    LET joined == urljoin(self.url, url)
    IN  [err |-> joined.err, cu |-> CrawlerURL(joined.url, self.depth)]

\* CrawlerURL.make_child_url: err when urljoin raises
make_child_url(self, url) ==
    LET joined == urljoin(self.url, url)
    IN  [err |-> joined.err, cu |-> CrawlerURL(joined.url, self.depth + 1)]

-----------------------------------------------------------------------------
(* class PrintLogger: the log holds what each call was given *)

log_visiting(l, crawler_url) == Append(l, [event |-> "visiting", cu |-> crawler_url])

log_processing(l, crawler_url) == Append(l, [event |-> "processing", cu |-> crawler_url])

\* error is the exception of the fetch; the log notes whose fetch it was
log_error(l, crawler_url) == Append(l, [event |-> "error", cu |-> crawler_url])

-----------------------------------------------------------------------------
(* class SeenURLs *)

\* SeenURLs.mark_seen had it kept the last URL only
mark_seen_LastOnly(urls, crawler_url) == {crawler_url.url}

\* SeenURLs.mark_seen, on the set of URLs
mark_seen(urls, crawler_url) == urls \cup {crawler_url.url}

\* SeenURLs.seen had it never found a URL
seen_Never(urls, crawler_url) == FALSE

\* SeenURLs.seen
seen(urls, crawler_url) == crawler_url.url \in urls

-----------------------------------------------------------------------------
(* urllib.robotparser.RobotFileParser, as _init_robots and _can_queue use it *)

\* what the server may answer to the request for robots.txt: a transport error,
\* a status code, or (code 200) the paths its Disallow lines name for the crawler
RobotsAnswers ==
    { [code |-> 0,   rules |-> {}],                \* URLError: no answer
      [code |-> 403, rules |-> {}],
      [code |-> 404, rules |-> {}],
      [code |-> 200, rules |-> {<<"/", "p">>}] }

\* the parser before read()
NewRobotFileParser ==
    [disallow_all |-> FALSE, allow_all |-> FALSE, last_checked |-> FALSE, rules |-> {}]

\* RobotFileParser.read() on an answer with a status code
read(answer) ==
    IF answer.code \in {401, 403}
    THEN [NewRobotFileParser EXCEPT !.disallow_all = TRUE]
    ELSE IF answer.code >= 400 /\ answer.code < 500
    THEN [NewRobotFileParser EXCEPT !.allow_all = TRUE]
    ELSE IF answer.code = 200
    THEN [NewRobotFileParser EXCEPT !.last_checked = TRUE, !.rules = answer.rules]
    ELSE NewRobotFileParser

\* RobotFileParser.can_fetch(USER_AGENT, url): the rules are matched on the path
can_fetch(parser, url) ==
    LET path == urlparse(url).path
        filename == IF path = <<>> THEN <<"/">> ELSE path
    IN  IF parser.disallow_all THEN FALSE
        ELSE IF parser.allow_all THEN TRUE
        ELSE IF ~parser.last_checked THEN FALSE
        ELSE ~\E rule \in parser.rules : StartsWith(filename, rule)

-----------------------------------------------------------------------------
(* class URLStore *)

\* URLStore.__init__: _base_dir and _files_dir
base_dir(dom) == dom

files_dir(dom) == PathJoin(base_dir(dom), FILES)

\* URLStore._url_to_path
_url_to_path(dom, crawler_url) ==
    PathJoin(files_dir(dom),
             Replace(Replace(crawler_url.url, "_", <<"_", "_">>), "/", <<"_">>))

\* URLStore._add_to_index: one row written to index.csv
_add_to_index(rows, crawler_url, file_path) ==
    Append(rows, [url |-> crawler_url.url, path |-> file_path])

\* open(path, 'wb+') and write: the file at path now holds page_content
write_file(fs, path, page_content) ==
    [p \in DOMAIN fs \cup {path} |-> IF p = path THEN page_content ELSE fs[p]]

\* URLStore.save_file, on the store st = [index, files]
save_file(st, dom, crawler_url, page_content) ==
    LET path == _url_to_path(dom, crawler_url)
    IN  [index |-> _add_to_index(st.index, crawler_url, path),
         files |-> write_file(st.files, path, page_content)]


-----------------------------------------------------------------------------
(* The environment: the sites served, and what a fetch may answer *)

Sites == {"scope", "dup", "broken", "deep", "tree", "clash"}

\* the root of every site, and the pages of the tree site
ROOT == HTTP \o <<":", "/", "/", "h", "/">>
PAGE_A == ROOT \o <<"a">>
PAGE_B == ROOT \o <<"b">>
PAGE_C == ROOT \o <<"c">>

\* an element, as (tag, attribute value)
El(tag, value) == [tag |-> tag, value |-> value]

\* the link-bearing elements the page at url of site s may hold.
\*   scope:  links to a page, to a page robots.txt may disallow, to another host
\*   dup:    links to one page twice, by URLs that differ in the fragment, and
\*           to a second page
\*   broken: an element without its attribute, one whose attribute is no URL,
\*           and a link to a page
\*   deep:   an endless chain of directories, each linking to the next
\*   tree:   the root links to a and b, b to c and d, a and c to d
\*   clash:  the root links to two pages whose URLs differ in '_' and '/'
Elements(s, url) ==
    IF s = "scope"
    THEN { El("a", <<"/", "a">>),
           El("link", <<"/", "p">>),
           El("a", HTTP \o <<":", "/", "/", "o", "/">>) }
    ELSE IF s = "dup"
    THEN { El("a", <<"/", "a">>),
           El("a", <<"/", "a", "#", "f">>),
           El("img", <<"b">>) }
    ELSE IF s = "broken"
    THEN { El("a", None),
           El("img", HTTP \o <<":", "/", "/", "[">>),
           El("a", <<"/", "a">>) }
    ELSE IF s = "deep"
    THEN { El("a", <<"x", "/">>) }
    ELSE IF s = "tree"
    THEN IF url = ROOT THEN { El("a", <<"/", "a">>), El("a", <<"/", "b">>) }
         ELSE IF url = PAGE_B THEN { El("a", <<"/", "c">>), El("img", <<"/", "d">>) }
         ELSE IF url \in {PAGE_A, PAGE_C} THEN { El("a", <<"/", "d">>) }
         ELSE {}
    ELSE IF url = ROOT
         THEN { El("a", <<"/", "a", "_", "/", "b">>),
                El("a", <<"/", "a", "/", "_", "b">>) }
         ELSE {}

\* the sequences over S of length at most n
RECURSIVE SeqsUpTo(_, _)
SeqsUpTo(S, n) ==
    IF n = 0 THEN {<<>>}
    ELSE LET shorter == SeqsUpTo(S, n - 1)
         IN  shorter \cup {Append(q, e) : q \in shorter, e \in S}

\* the Content-Type headers a response may carry; None is a response without one
ContentTypes == {TEXT_HTML \o <<";", "x">>, <<"i", "m", "g">>, None}

\* what urlopen(req) and response.read() may give: an exception (ok is FALSE),
\* or a response with its Content-Type header and its content, the elements of
\* the document
Responses(s, url) ==
    {[ok |-> FALSE, ctype |-> None, content |-> <<>>]}
    \cup [ok : {TRUE}, ctype : ContentTypes,
          content : SeqsUpTo(Elements(s, url), MaxLinks)]

\* before any fetch
NoResponse ==
    [cu |-> [url |-> <<>>, depth |-> 0], ok |-> FALSE, ctype |-> None, content |-> <<>>]

-----------------------------------------------------------------------------
(* class Crawler *)

\* Crawler._can_queue had it compared the depth one too far
_can_queue_DepthOffByOne(urls, crawler_url) ==
    IF crawler_url.depth > MAX_DEPTH + 1 THEN FALSE
    ELSE IF urlparse(crawler_url.url).err THEN FALSE
    ELSE IF ~can_fetch(robots, crawler_url.url) THEN FALSE
    ELSE IF domain # urlparse(crawler_url.url).netloc THEN FALSE
    ELSE ~seen(urls, crawler_url)

\* Crawler._can_queue without the question to robots.txt
_can_queue_NoRobots(urls, crawler_url) ==
    IF crawler_url.depth > MAX_DEPTH THEN FALSE
    ELSE IF urlparse(crawler_url.url).err THEN FALSE
    ELSE IF domain # urlparse(crawler_url.url).netloc THEN FALSE
    ELSE ~seen(urls, crawler_url)

\* Crawler._can_queue without the comparison of the network location
_can_queue_NoDomain(urls, crawler_url) ==
    IF crawler_url.depth > MAX_DEPTH THEN FALSE
    ELSE IF urlparse(crawler_url.url).err THEN FALSE
    ELSE IF ~can_fetch(robots, crawler_url.url) THEN FALSE
    ELSE ~seen(urls, crawler_url)

\* Crawler._can_queue, given the seen set at the time of the call
_can_queue(urls, crawler_url) ==
    IF crawler_url.depth > MAX_DEPTH THEN FALSE
    ELSE IF urlparse(crawler_url.url).err THEN FALSE
    ELSE IF ~can_fetch(robots, crawler_url.url) THEN FALSE
    ELSE IF domain # urlparse(crawler_url.url).netloc THEN FALSE
    ELSE ~seen(urls, crawler_url)

\* Crawler._queue had it pushed without marking the URL seen
_queue_PushOnly(q, crawler_url) ==
    IF ~_can_queue(q.seen, crawler_url) THEN q
    ELSE [q EXCEPT !.queue = Append(q.queue, crawler_url)]

\* Crawler._queue had the scope policy marked what it refuses
_queue_MarkRejected(q, crawler_url) ==
    IF ~_can_queue(q.seen, crawler_url)
    THEN [q EXCEPT !.seen = mark_seen(q.seen, crawler_url)]
    ELSE [q EXCEPT !.seen = mark_seen(q.seen, crawler_url),
                   !.queue = Append(q.queue, crawler_url)]

\* Crawler._queue had the frontier been a queue.Queue: put at the far end
_queue_PushFront(q, crawler_url) ==
    IF ~_can_queue(q.seen, crawler_url) THEN q
    ELSE [q EXCEPT !.seen = mark_seen(q.seen, crawler_url),
                   !.queue = <<crawler_url>> \o q.queue]

\* Crawler._queue, on q = [seen, queue]: LifoQueue.put appends at the top
_queue(q, crawler_url) ==
    IF ~_can_queue(q.seen, crawler_url) THEN q
    ELSE [q EXCEPT !.seen = mark_seen(q.seen, crawler_url),
                   !.queue = Append(q.queue, crawler_url)]

\* document.find_all(element_name): the elements of that name, in document order
RECURSIVE find_all(_, _)
find_all(document, element_name) ==
    IF document = <<>> THEN <<>>
    ELSE (IF Head(document).tag = element_name THEN <<Head(document)>> ELSE <<>>)
         \o find_all(Tail(document), element_name)

\* link_elements had it no entry for images
link_elements_NoImg(document) ==
    find_all(document, "link") \o find_all(document, "a")

\* the elements in the order _extract_links takes them: by link_elements, then
\* by document order
link_elements(document) ==
    find_all(document, "link") \o find_all(document, "img") \o find_all(document, "a")

\* the loop of _extract_links over the elements left, on q = [seen, queue, raised]:
\* an exception of make_child_url ends it
RECURSIVE queue_children(_, _, _)
queue_children(q, crawler_url, elements) ==
    IF elements = <<>> THEN q
    ELSE LET child == make_child_url(crawler_url, Head(elements).value)
         IN  IF child.err THEN [q EXCEPT !.raised = TRUE]
             ELSE queue_children(_queue(q, child.cu), crawler_url, Tail(elements))

\* Crawler._extract_links
_extract_links(q, crawler_url, page_content) ==
    queue_children(q, crawler_url, link_elements(page_content))

\* Crawler._fetch_page on c = [seen, queue, index, files, log, raised], with the
\* answer r of the transport; raised when an exception leaves it
_fetch_page(c, crawler_url, r) ==
    LET visiting == [c EXCEPT !.log = log_visiting(c.log, crawler_url)]
        processing == [visiting EXCEPT !.log = log_processing(visiting.log, crawler_url)]
        extracted == IF Contains(r.ctype, TEXT_HTML)
                     THEN _extract_links(processing, crawler_url, r.content)
                     ELSE processing
        \* the content is written as it was served: the model notes a file's
        \* content by the URL it was served for
        saved == save_file(extracted, domain, crawler_url, crawler_url.url)
    IN  IF ~r.ok
        THEN [visiting EXCEPT !.log = log_error(visiting.log, crawler_url)]
        ELSE IF r.ctype = None
        THEN [processing EXCEPT !.raised = TRUE]    \* 'text/html' in None: TypeError
        ELSE IF extracted.raised THEN extracted
        ELSE [extracted EXCEPT !.index = saved.index, !.files = saved.files]

\* Crawler._init_robots: the URL asked for
robots_txt_url(root) ==
    LET url == urlparse(root)
    IN  url.scheme \o <<":", "/", "/">> \o url.netloc \o ROBOTS_TXT

\* the root URLs the crawler is started with; the last has no network location
Roots == {ROOT, ROOT \o <<"#", "f">>, <<"h", "/">>}

\* what the server answers when it has no robots.txt
NO_ROBOTS_TXT == [code |-> 404, rules |-> {}]

\* the runs of the model: the scope site with every answer for robots.txt, the
\* clash site from every root, and the other sites, which link to nothing a rule
\* names, from the plain root and with no robots.txt
Runs ==
    [site : {"scope"}, root : {ROOT}, answer : RobotsAnswers]
    \cup [site : {"clash"}, root : Roots, answer : {NO_ROBOTS_TXT}]
    \cup [site : Sites \ {"scope", "clash"}, root : {ROOT}, answer : {NO_ROBOTS_TXT}]

\* Crawler.__init__ had it taken every root URL
has_domain_Always(dom) == TRUE

\* Crawler.__init__: the test of the domain, "if not self._domain" negated
has_domain(dom) == dom # <<>>

\* Crawler.__init__(logger, root_url) with the server's answer for robots.txt
Init ==
    \E run \in Runs :
        LET root == run.root
            answer == run.answer
            s == run.site
        IN
        LET dom == urlparse(root).netloc
            q == [seen |-> {}, queue |-> <<>>]
        IN  /\ root_url = root
            /\ site = s
            /\ domain = dom
            /\ index_csv = <<>>
            /\ files = <<>>
            /\ log = <<>>
            /\ resp = NoResponse
            /\ owed = {}
            /\ linked = {}
            /\ IF ~has_domain(dom)
               THEN \* raise Exception('Crawler requires an absolute URL')
                    /\ store_dirs = {}
                    /\ index_open = FALSE
                    /\ robots_url = <<>>
                    /\ robots = NewRobotFileParser
                    /\ seen_urls = {}
                    /\ urls_to_visit = <<>>
                    /\ pc = "failed"
               ELSE /\ store_dirs = {base_dir(dom), files_dir(dom)}
                    /\ index_open = TRUE
                    /\ robots_url = robots_txt_url(root)
                    /\ IF answer.code = 0
                       THEN \* parser.read() raises URLError
                            /\ robots = NewRobotFileParser
                            /\ seen_urls = {}
                            /\ urls_to_visit = <<>>
                            /\ pc = "failed"
                       ELSE /\ robots = read(answer)
                            /\ LET queued == _queue(q, CrawlerURL(root, 0))
                               IN  /\ seen_urls = queued.seen
                                   /\ urls_to_visit = queued.queue
                            /\ pc = "crawl"


\* whether the attribute value of a link of the page at base is a URL of the
\* domain that robots.txt permits: what lines 25 and 239-250 ask of a link
link_in_scope(base, value) ==
    /\ value # None
    /\ ~urljoin(base, value).err
    /\ urlparse(urljoin(base, value).url).netloc = domain
    /\ can_fetch(robots, urldefrag(urljoin(base, value).url))

\* the URLs, without fragment, that the links of the document answered for
\* crawler_url resolve to in scope; none when the answer is no document or the
\* page is at MAX_DEPTH, where its children would be too deep
links_in_scope(crawler_url, r) ==
    IF r.ok /\ Contains(r.ctype, TEXT_HTML) /\ crawler_url.depth < MAX_DEPTH
    THEN {urldefrag(urljoin(crawler_url.url, r.content[i].value).url) :
              i \in {j \in DOMAIN r.content :
                         link_in_scope(crawler_url.url, r.content[j].value)}}
    ELSE {}

\* Crawler.crawl, one turn of its loop: the frontier is not empty, its top is
\* taken (LifoQueue.get) and fetched; an exception that leaves _fetch_page
\* leaves crawl() and ends the program
crawl ==
    /\ pc = "crawl"
    /\ urls_to_visit # <<>>
    /\ LET crawler_url == urls_to_visit[Len(urls_to_visit)]
           c == [seen |-> seen_urls,
                 queue |-> SubSeq(urls_to_visit, 1, Len(urls_to_visit) - 1),
                 index |-> index_csv, files |-> files, log |-> log,
                 raised |-> FALSE]
       IN  \E r \in Responses(site, crawler_url.url) :
               LET after == _fetch_page(c, crawler_url, r)
               IN  /\ seen_urls' = after.seen
                   /\ urls_to_visit' = after.queue
                   /\ index_csv' = after.index
                   /\ files' = after.files
                   /\ log' = after.log
                   /\ resp' = [cu |-> crawler_url, ok |-> r.ok,
                               ctype |-> r.ctype, content |-> r.content]
                   /\ owed' = (owed \ {crawler_url.url})
                              \cup (IF r.ok THEN {} ELSE {c.queue[i].url : i \in DOMAIN c.queue})
                   /\ linked' = linked \cup links_in_scope(crawler_url, r)
                   /\ pc' = IF after.raised THEN "aborted" ELSE "crawl"
    /\ UNCHANGED <<root_url, site, domain, robots_url, robots, store_dirs, index_open>>

\* Crawler.crawl returns: the frontier is empty
crawl_return ==
    /\ pc = "crawl"
    /\ urls_to_visit = <<>>
    /\ pc' = "done"
    /\ UNCHANGED <<root_url, site, domain, robots_url, robots, store_dirs, index_open,
                   index_csv, files, seen_urls, urls_to_visit, log, resp, owed, linked>>

\* Crawler.close, which the program calls after crawl() has returned
close ==
    /\ pc = "done"
    /\ index_open' = FALSE
    /\ pc' = "closed"
    /\ UNCHANGED <<root_url, site, domain, robots_url, robots, store_dirs,
                   index_csv, files, seen_urls, urls_to_visit, log, resp, owed, linked>>

Next == crawl \/ crawl_return \/ close

Spec == Init /\ [][Next]_vars


-----------------------------------------------------------------------------
(* What the claims speak of *)

\* the network location of a URL
Netloc(url) == urlparse(url).netloc

\* whether anything has been fetched yet: resp is then the answer to the last
\* fetch and resp.cu the identity fetched.  Every fetch is the last fetch of
\* some reachable state, so what holds of resp.cu in every reachable state
\* holds of every identity ever fetched; likewise for the last row of the index.
Fetched == log # <<>>

\* the last fetch answered with a document whose links were extracted
ExtractedLast == Fetched /\ resp.ok /\ Contains(resp.ctype, TEXT_HTML)

\* the child identities of the elements of the last document, in document order
Child(i) == make_child_url(resp.cu, resp.content[i].value)

\* the positions of the log at which a fetch began
Visits == {i \in DOMAIN log : log[i].event = "visiting"}

\* the frontier and the seen set, as _queue takes them
Q == [seen |-> seen_urls, queue |-> urls_to_visit]

\* URLs to ask the scope policy about: pages of the host, in and out of the
\* robots rule, with and without fragment, and pages of another host
Candidates ==
    { ROOT, PAGE_A, PAGE_A \o <<"#", "f">>, ROOT \o <<"n">>,
      ROOT \o <<"p">>, ROOT \o <<"p", "/", "n">>,
      HTTP \o <<":", "/", "/", "o", "/">>, HTTP \o <<":", "/", "/", "o", "/", "n">>,
      HTTP \o <<":", "/", "/", "h", "o", "/">> }

-----------------------------------------------------------------------------
(* C1 *)

\* C1: at-most-once enqueue.  _queue of an identity whose URL is already in the
\* seen set changes nothing; the frontier never holds two identities with the
\* same URL; the URL just fetched was not fetched before and no URL in the
\* frontier has been fetched, so no URL is fetched twice.
C1_AtMostOnceEnqueue ==
    /\ \A u \in seen_urls : _queue(Q, [url |-> u, depth |-> 1]) = Q
    /\ \A i, j \in DOMAIN urls_to_visit :
           urls_to_visit[i].url = urls_to_visit[j].url => i = j
    /\ \A i \in Visits : log[i].cu.url = resp.cu.url => \A j \in Visits : j <= i
    /\ \A i \in Visits, k \in DOMAIN urls_to_visit : log[i].cu.url # urls_to_visit[k].url

\* C1 witness: the last document held two elements for one URL, which is in the
\* frontier (once, by the claim) and is not the page itself
C1_Witness_DuplicateInBatch ==
    /\ ExtractedLast /\ pc = "crawl"
    /\ \E i, j \in DOMAIN resp.content :
           /\ i < j
           /\ ~Child(i).err /\ ~Child(j).err
           /\ Child(i).cu.url = Child(j).cu.url
           /\ Child(i).cu.url # resp.cu.url
           /\ \E k \in DOMAIN urls_to_visit : urls_to_visit[k] = Child(i).cu

-----------------------------------------------------------------------------
(* C2 *)

\* C2: the URL of every identity in the frontier is in the seen set
C2_FrontierSeen ==
    \A i \in DOMAIN urls_to_visit : seen(seen_urls, urls_to_visit[i])

\* C2 witness: the last visit pushed two children, both seen and in the frontier
C2_Witness_TwoPushed ==
    /\ ExtractedLast /\ pc = "crawl"
    /\ Len(urls_to_visit) >= 2
    /\ \A k \in {Len(urls_to_visit) - 1, Len(urls_to_visit)} :
           /\ urls_to_visit[k].depth = resp.cu.depth + 1
           /\ urls_to_visit[k].url \in seen_urls

-----------------------------------------------------------------------------
(* C3 *)

\* C3: domain scope.  _can_queue refuses every candidate whose network location
\* is not the domain of record; every identity in the frontier, the identity just
\* fetched and the last row of the index are of the domain of record.
C3_DomainScope ==
    /\ \A u \in Candidates, d \in {0, 1} :
           Netloc(u) # domain => ~_can_queue(seen_urls, CrawlerURL(u, d))
    /\ \A i \in DOMAIN urls_to_visit : Netloc(urls_to_visit[i].url) = domain
    /\ Fetched => Netloc(resp.cu.url) = domain
    /\ index_csv # <<>> => Netloc(index_csv[Len(index_csv)].url) = domain

\* C3 witness: the last document linked to another host, and nothing but the
\* network location stood against that link: robots.txt permits it, its depth is
\* within the bound and it has not been seen
C3_Witness_OffDomainLink ==
    /\ ExtractedLast /\ pc = "crawl"
    /\ \E i \in DOMAIN resp.content :
           /\ ~Child(i).err
           /\ Netloc(Child(i).cu.url) # domain
           /\ can_fetch(robots, Child(i).cu.url)
           /\ Child(i).cu.depth <= MAX_DEPTH
           /\ ~seen(seen_urls, Child(i).cu)

-----------------------------------------------------------------------------
(* C4 *)

\* C4: robots scope.  A URL that robots.txt does not permit is refused by
\* _can_queue; every identity in the frontier, the identity just fetched and the
\* last row of the index are permitted.
C4_RobotsScope ==
    /\ \A u \in Candidates, d \in {0, 1} :
           ~can_fetch(robots, u) => ~_can_queue(seen_urls, CrawlerURL(u, d))
    /\ \A i \in DOMAIN urls_to_visit : can_fetch(robots, urls_to_visit[i].url)
    /\ Fetched => can_fetch(robots, resp.cu.url)
    /\ index_csv # <<>> => can_fetch(robots, index_csv[Len(index_csv)].url)

\* C4 witness: the last document linked to a page of the domain that robots.txt
\* disallows, and nothing but robots.txt stood against that link
C4_Witness_DisallowedLink ==
    /\ ExtractedLast /\ pc = "crawl"
    /\ \E i \in DOMAIN resp.content :
           /\ ~Child(i).err
           /\ ~can_fetch(robots, Child(i).cu.url)
           /\ Netloc(Child(i).cu.url) = domain
           /\ Child(i).cu.depth <= MAX_DEPTH
           /\ ~seen(seen_urls, Child(i).cu)

-----------------------------------------------------------------------------
(* C5 *)

\* C5: depth bound.  _can_queue refuses every candidate deeper than MAX_DEPTH;
\* every identity in the frontier and the identity just fetched have a depth
\* from 0 to MAX_DEPTH.
C5_DepthBound ==
    /\ \A u \in Candidates, d \in {MAX_DEPTH + 1, MAX_DEPTH + 2} :
           ~_can_queue(seen_urls, CrawlerURL(u, d))
    /\ \A i \in DOMAIN urls_to_visit :
           urls_to_visit[i].depth >= 0 /\ urls_to_visit[i].depth <= MAX_DEPTH
    /\ Fetched => resp.cu.depth >= 0 /\ resp.cu.depth <= MAX_DEPTH

\* C5 witness: the last document, at depth MAX_DEPTH, linked to a page that
\* would have been admitted at a smaller depth and was refused
C5_Witness_TooDeepLink ==
    /\ ExtractedLast /\ pc = "crawl"
    /\ resp.cu.depth = MAX_DEPTH
    /\ \E i \in DOMAIN resp.content :
           /\ ~Child(i).err
           /\ Child(i).cu.depth = MAX_DEPTH + 1
           /\ _can_queue(seen_urls, [Child(i).cu EXCEPT !.depth = MAX_DEPTH])
           /\ ~_can_queue(seen_urls, Child(i).cu)
           /\ \A k \in DOMAIN urls_to_visit : urls_to_visit[k].url # Child(i).cu.url


-----------------------------------------------------------------------------
(* C6 *)

\* C6: fetch-failure isolation.  After a fetch that failed, the log ends with
\* its error event, the identity is not in the frontier again, the index has no
\* row for it and no file is written for it, and the crawl goes on: the program
\* never stops while an identity that waited in the frontier at a failed fetch
\* is still waiting.
C6_FetchFailureIsolation ==
    /\ (Fetched /\ ~resp.ok) =>
           /\ log[Len(log)] = [event |-> "error", cu |-> resp.cu]
           /\ \A i \in DOMAIN urls_to_visit : urls_to_visit[i].url # resp.cu.url
           /\ \A i \in DOMAIN index_csv : index_csv[i].url # resp.cu.url
           /\ \A p \in DOMAIN files : files[p] # resp.cu.url
           /\ pc # "aborted"
    /\ pc \in {"aborted", "done", "closed"} => owed = {}

\* the part of C6 about the failed identity itself: a turn of the loop whose
\* fetch fails takes the identity from the frontier, logs its visit and the
\* error, and changes nothing else
C6_FailedFetchChangesNothingElse ==
    [][(pc = "crawl" /\ urls_to_visit # <<>> /\ log' # log /\ ~resp'.ok) =>
           /\ urls_to_visit' = SubSeq(urls_to_visit, 1, Len(urls_to_visit) - 1)
           /\ log' = log \o << [event |-> "visiting", cu |-> resp'.cu],
                              [event |-> "error", cu |-> resp'.cu] >>
           /\ resp'.cu = urls_to_visit[Len(urls_to_visit)]
           /\ UNCHANGED <<seen_urls, index_csv, files, index_open, store_dirs>>
           /\ pc' = "crawl"]_vars

-----------------------------------------------------------------------------
(* C7 *)

\* C7: the file-name escaping is injective.  Two distinct URLs the crawler has
\* met never have the same file name, and no two rows of the index with
\* distinct URLs name the same file.
C7_FilenamesInjective ==
    /\ \A u1, u2 \in seen_urls :
           u1 # u2 => _url_to_path(domain, [url |-> u1, depth |-> 0])
                          # _url_to_path(domain, [url |-> u2, depth |-> 0])
    /\ \A i, j \in DOMAIN index_csv :
           index_csv[i].url # index_csv[j].url => index_csv[i].path # index_csv[j].path

-----------------------------------------------------------------------------
(* C8 *)

\* whether a log event says that a page was fetched: log_processing is called
\* right after urlopen and read have succeeded
IsProcessing(e) == e.event = "processing"

\* C8: the index holds exactly one row per page fetched with success, in the
\* order of the visits, each with the page's URL and file path.
C8_IndexRowPerFetchedPage ==
    /\ Len(index_csv) = Len(SelectSeq(log, IsProcessing))
    /\ \A i \in DOMAIN index_csv :
           /\ index_csv[i].url = SelectSeq(log, IsProcessing)[i].cu.url
           /\ index_csv[i].path = _url_to_path(domain, SelectSeq(log, IsProcessing)[i].cu)

\* the part of C8 about the rows written: the index only grows, by one row at
\* its end
C8_IndexAppendOnly ==
    [][\/ index_csv' = index_csv
       \/ /\ Len(index_csv') = Len(index_csv) + 1
          /\ SubSeq(index_csv', 1, Len(index_csv)) = index_csv]_vars

-----------------------------------------------------------------------------
(* C9 *)

\* the program has been constructed and has fetched nothing yet
Constructed == pc = "crawl" /\ ~Fetched

\* the root identity: the root URL without its fragment, at depth 0
RootIdentity == [url |-> urldefrag(root_url), depth |-> 0]

\* the crawl is over, and it was the crawl of a single page without links: one
\* fetch, which gave a document, text/html, without elements
SinglePageCrawl ==
    /\ pc \in {"done", "closed"}
    /\ Cardinality(Visits) = 1
    /\ ExtractedLast /\ resp.content = <<>>

\* one row in the index and one file, the page's
OneRowOneFile ==
    /\ Len(index_csv) = 1 /\ index_csv[1].url = resp.cu.url
    /\ DOMAIN files = {index_csv[1].path}
    /\ files[index_csv[1].path] = resp.cu.url

\* C9 as claimed: after construction with any root URL that has a network
\* location the frontier holds the root identity and nothing else, the root is
\* fetched first, and the crawl of a single page gives one row and one file.
C9_SeededWithRoot ==
    /\ Constructed => urls_to_visit = <<RootIdentity>>
    /\ Fetched => log[1] = [event |-> "visiting", cu |-> RootIdentity]
    /\ SinglePageCrawl => OneRowOneFile

\* C9 as amended: after construction the frontier holds the root identity and
\* nothing else when robots.txt permits the root URL, and is empty when it does
\* not; the first fetch is the root's; the crawl of a single page gives one row
\* and one file.
C9_SeededWithRootIfPermitted ==
    /\ Constructed =>
           urls_to_visit = IF can_fetch(robots, urldefrag(root_url))
                           THEN <<RootIdentity>> ELSE <<>>
    /\ Fetched => log[1] = [event |-> "visiting", cu |-> RootIdentity]
    /\ SinglePageCrawl => OneRowOneFile

\* C9 witness: the crawl of a single page, from a root URL with a fragment, is
\* over with its one row and one file
C9_Witness_SinglePage ==
    /\ SinglePageCrawl /\ OneRowOneFile
    /\ root_url # urldefrag(root_url)
    /\ resp.cu = RootIdentity

-----------------------------------------------------------------------------
(* C10 *)

\* C10: per-page errors never leave the visit.  After the visit of a document
\* the program goes on, the page is the last row of the index, and every
\* element whose attribute is missing or resolves to a URL has been considered:
\* its URL is seen by now or is not admissible.
C10_LinkErrorsDropped ==
    ExtractedLast =>
        /\ pc # "aborted"
        /\ index_csv # <<>> /\ index_csv[Len(index_csv)].url = resp.cu.url
        /\ \A i \in DOMAIN resp.content :
               ~Child(i).err => ~_can_queue(seen_urls, Child(i).cu)

-----------------------------------------------------------------------------
(* C11 *)

\* C11: termination.  crawl() returns only with an empty frontier and never
\* with an identity left in it, and its loop is left in no other way than by
\* returning: whatever the pages answer, the program is constructing, crawling
\* (with a turn of the loop or the return to take) or has returned.
C11_CrawlReturns ==
    /\ pc \in {"done", "closed"} => urls_to_visit = <<>>
    /\ pc = "crawl" => ENABLED (crawl \/ crawl_return)
    /\ pc \in {"failed", "crawl", "done", "closed"}

-----------------------------------------------------------------------------
(* C12 *)

\* whether two URLs differ only by fragment: both parse, with equal scheme,
\* network location and path, and they are not the same string
DifferOnlyByFragment(u1, u2) ==
    /\ u1 # u2
    /\ ~urlparse(u1).err /\ ~urlparse(u2).err
    /\ urlparse(u1).scheme = urlparse(u2).scheme
    /\ urlparse(u1).netloc = urlparse(u2).netloc
    /\ urlparse(u1).path = urlparse(u2).path

\* the URL the i-th link of the last document resolves to, fragment and all
Resolved(i) == urljoin(resp.cu.url, resp.content[i].value)

\* C12: fragment-insensitivity.  URLs that differ only by fragment give
\* identities with one url; two links of a page that resolve to such URLs give
\* one child url, which after the visit is refused as seen and is in the
\* frontier once, unless it has been fetched already; no URL of the seen set or the frontier has a fragment,
\* and the URL just fetched was fetched once.
C12_FragmentInsensitive ==
    /\ \A u \in {PAGE_A, PAGE_A \o <<"#", "f">>, ROOT} :
           /\ DifferOnlyByFragment(u, u \o <<"#", "g">>)
           /\ CrawlerURL(u, 1).url = CrawlerURL(u \o <<"#", "g">>, 2).url
    /\ \A u \in seen_urls : Find(u, "#") = 0
    /\ \A k \in DOMAIN urls_to_visit : Find(urls_to_visit[k].url, "#") = 0
    /\ Fetched => Cardinality({i \in Visits : log[i].cu.url = resp.cu.url}) = 1
    /\ (ExtractedLast /\ pc = "crawl") =>
           \A i, j \in DOMAIN resp.content :
               (~Resolved(i).err /\ ~Resolved(j).err
                    /\ DifferOnlyByFragment(Resolved(i).url, Resolved(j).url)) =>
                   /\ Child(i).cu.url = Child(j).cu.url
                   /\ _can_queue(seen_urls \ {Child(i).cu.url}, Child(i).cu) =>
                          /\ ~_can_queue(seen_urls, Child(j).cu)
                          /\ Cardinality({k \in DOMAIN urls_to_visit :
                                 urls_to_visit[k].url = Child(j).cu.url})
                                 = IF \E v \in Visits : log[v].cu.url = Child(j).cu.url
                                   THEN 0 ELSE 1

\* C12 witness: the last document held two links that resolve to URLs differing
\* only by fragment; one identity for them was admitted and waits in the frontier
C12_Witness_TwoFragments ==
    /\ ExtractedLast /\ pc = "crawl"
    /\ \E i, j \in DOMAIN resp.content :
           /\ ~Resolved(i).err /\ ~Resolved(j).err
           /\ DifferOnlyByFragment(Resolved(i).url, Resolved(j).url)
           /\ \E k \in DOMAIN urls_to_visit :
                  urls_to_visit[k].url = urldefrag(Resolved(i).url)

-----------------------------------------------------------------------------
(* C13 *)

\* C13: invalid root.  With a root URL that has no network location the
\* construction has failed, and in every state of that run no storage directory
\* exists, the index file was never opened, robots.txt was never asked for, the
\* seen set and the frontier are empty and nothing was fetched or stored.
C13_InvalidRootFailsFirst ==
    Netloc(root_url) = <<>> =>
        /\ pc = "failed"
        /\ store_dirs = {} /\ ~index_open
        /\ robots_url = <<>> /\ robots = NewRobotFileParser
        /\ seen_urls = {} /\ urls_to_visit = <<>>
        /\ ~Fetched /\ index_csv = <<>> /\ files = <<>>

\* C13 witness: the crawler was given a root URL, not empty, without a network
\* location, and its construction has failed
C13_Witness_RelativeRoot ==
    /\ root_url # <<>> /\ Netloc(root_url) = <<>>
    /\ pc = "failed"

-----------------------------------------------------------------------------
(* C14 *)

\* C14: every successful fetch is persisted, whatever the content type.  After
\* a fetch that succeeded, the index ends with the one row of the identity
\* fetched and its file holds what was served for it; after a fetch whose
\* content type does not contain text/html the program goes on.
C14_EveryFetchPersisted ==
    (Fetched /\ resp.ok) =>
        /\ index_csv # <<>>
        /\ index_csv[Len(index_csv)] = [url |-> resp.cu.url,
                                        path |-> _url_to_path(domain, resp.cu)]
        /\ Cardinality({i \in DOMAIN index_csv : index_csv[i].url = resp.cu.url}) = 1
        /\ _url_to_path(domain, resp.cu) \in DOMAIN files
        /\ files[_url_to_path(domain, resp.cu)] = resp.cu.url
        /\ ~Contains(resp.ctype, TEXT_HTML) => pc # "aborted"

\* the part of C14 about the links: a turn of the loop whose response does not
\* contain text/html in its content type marks nothing seen and pushes nothing
C14_LinksOnlyFromHtml ==
    [][(pc = "crawl" /\ log' # log /\ ~Contains(resp'.ctype, TEXT_HTML)) =>
           /\ seen_urls' = seen_urls
           /\ urls_to_visit' = SubSeq(urls_to_visit, 1, Len(urls_to_visit) - 1)]_vars

-----------------------------------------------------------------------------
(* C15 *)

\* the identities pushed by the step: the frontier after it, above what was left
\* of the frontier before it when its top was taken
Pushed == SubSeq(urls_to_visit', Len(urls_to_visit), Len(urls_to_visit'))

\* C15: the scope policy has no effect, and a refused enqueue changes nothing.
\* In every state, _queue of a candidate that _can_queue refuses gives back the
\* seen set and the frontier as they were; and in every turn of the loop the
\* URLs newly seen are exactly those of the identities pushed, each the child of
\* a link that _can_queue admitted, so no refused candidate was marked; the
\* index gets at most the row of the page fetched.
C15_RefusedChangesNothing ==
    /\ [](\A u \in Candidates, d \in {1, MAX_DEPTH + 1} :
              ~_can_queue(seen_urls, CrawlerURL(u, d)) => _queue(Q, CrawlerURL(u, d)) = Q)
    /\ [][(pc = "crawl" /\ log' # log) =>
              /\ seen_urls \subseteq seen_urls'
              /\ seen_urls' \ seen_urls = {Pushed[k].url : k \in DOMAIN Pushed}
              /\ \A u \in seen_urls' \ seen_urls :
                     \E i \in DOMAIN resp'.content :
                         LET child == make_child_url(resp'.cu, resp'.content[i].value)
                         IN  /\ ~child.err /\ child.cu.url = u
                             /\ _can_queue(seen_urls, child.cu)
              /\ \/ index_csv' = index_csv
                 \/ index_csv' = Append(index_csv,
                        [url |-> resp'.cu.url, path |-> _url_to_path(domain, resp'.cu)])]_vars

\* C15 witness: the last document held a link that was refused and one that was
\* admitted; the refused one is not in the seen set, the admitted one is
C15_Witness_RefusedAndAdmitted ==
    /\ ExtractedLast /\ pc = "crawl"
    /\ \E i, j \in DOMAIN resp.content :
           /\ ~Child(i).err /\ ~Child(j).err
           /\ ~seen(seen_urls, Child(i).cu)
           /\ ~_can_queue(seen_urls \ {Child(i).cu.url}, Child(i).cu)
           /\ urls_to_visit # <<>>
           /\ urls_to_visit[Len(urls_to_visit)] = Child(j).cu

-----------------------------------------------------------------------------
(* C16 *)

\* the child identities of a document's links, in the order _extract_links
\* takes them
Children(cu, content) ==
    [i \in DOMAIN link_elements(content) |->
         make_child_url(cu, link_elements(content)[i].value)]

\* the first position in a sequence of children at which the URL u is met
FirstAt(children, u) ==
    CHOOSE i \in DOMAIN children :
        /\ children[i].cu.url = u
        /\ \A j \in 1..(i - 1) : children[j].cu.url # u

-----------------------------------------------------------------------------
(* C17 *)

\* the crawl is over: crawl() has returned, or an exception has ended it
CrawlOver == pc \in {"done", "closed", "aborted"}

\* C17: exactly one fetch per queued URL.  No URL is ever fetched twice, and
\* when the crawl is over no identity is left in the frontier: every URL that
\* was pushed (every URL of the seen set) has had its one fetch.
C17_EveryQueuedFetchedOnce ==
    /\ Fetched => Cardinality({i \in Visits : log[i].cu.url = resp.cu.url}) <= 1
    /\ CrawlOver =>
           /\ urls_to_visit = <<>>
           /\ seen_urls = {log[i].cu.url : i \in Visits}

-----------------------------------------------------------------------------
(* C18 *)

\* the URLs for which a fetch has been attempted
VisitedURLs == {log[i].cu.url : i \in Visits}

\* C18: closure at termination.  When crawl() has returned, every URL that a
\* well-formed link of a document fetched at a depth under MAX_DEPTH resolves
\* to, within the domain of record and the robots rules, has had a fetch
\* attempted.
C18_ClosedAtReturn ==
    pc \in {"done", "closed"} => linked \subseteq VisitedURLs

\* C18 witness: crawl() has returned from a crawl whose documents linked, in
\* scope, to three URLs or more, one of them found on a page under the root
C18_Witness_ClosedTree ==
    /\ pc = "done"
    /\ Cardinality(linked) >= 3
    /\ linked \subseteq VisitedURLs
    /\ \E i \in Visits : log[i].cu.depth >= 2

-----------------------------------------------------------------------------
(* C19 *)

\* the URLs of the identities in the frontier
FrontierURLs == {urls_to_visit[k].url : k \in DOMAIN urls_to_visit}

\* C19: the seen set is partitioned.  In every state the seen set is the union
\* of the URLs in the frontier and the URLs taken from it, which are disjoint,
\* and the frontier holds each of its URLs once; _queue of a candidate too deep
\* leaves the seen set as it is; and no step takes a URL out of the seen set.
C19_SeenPartition ==
    /\ [](/\ seen_urls = FrontierURLs \cup VisitedURLs
          /\ FrontierURLs \cap VisitedURLs = {}
          /\ Cardinality(FrontierURLs) = Len(urls_to_visit)
          /\ \A u \in {PAGE_A, ROOT \o <<"n">>} :
                 _queue(Q, CrawlerURL(u, MAX_DEPTH + 1)).seen = seen_urls)
    /\ [][seen_urls \subseteq seen_urls']_vars

\* C19 witness: between two visits, with identities waiting in the frontier and
\* others taken from it, the last document held a link that was refused and is
\* not in the seen set
C19_Witness_BetweenVisits ==
    /\ ExtractedLast /\ pc = "crawl"
    /\ urls_to_visit # <<>>
    /\ Cardinality(VisitedURLs) >= 2
    /\ \E i \in DOMAIN resp.content :
           ~Child(i).err /\ Child(i).cu.url \notin seen_urls

-----------------------------------------------------------------------------
(* C20 *)

\* C20: depth is fixed at first discovery.  Before the first fetch the frontier
\* holds nothing but the root at depth 0, and the first fetch is the root's at
\* depth 0; in every turn of the loop the identity fetched has the depth it was
\* pushed with, every identity pushed has the depth of the page fetched plus 1,
\* none of them has a URL that was seen before, and the identities left in the
\* frontier keep their depth.
C20_DepthFixedAtDiscovery ==
    /\ [](/\ ~Fetched => \A k \in DOMAIN urls_to_visit : urls_to_visit[k] = RootIdentity
          /\ Fetched => log[1].cu = RootIdentity)
    /\ [][(pc = "crawl" /\ log' # log) =>
              /\ resp'.cu.depth = urls_to_visit[Len(urls_to_visit)].depth
              /\ \A k \in DOMAIN Pushed :
                     /\ Pushed[k].depth = resp'.cu.depth + 1
                     /\ Pushed[k].url \notin seen_urls
              /\ \A k \in 1..(Len(urls_to_visit) - 1) :
                     /\ k <= Len(urls_to_visit')
                     /\ urls_to_visit'[k].depth = urls_to_visit[k].depth
                     /\ urls_to_visit'[k].url = urls_to_visit[k].url]_vars

\* C20 witness: the last document linked to a URL that had been fetched at a
\* greater depth than the link gives it; the URL is not in the frontier again
C20_Witness_RediscoveredHigher ==
    /\ ExtractedLast /\ pc = "crawl"
    /\ \E i \in DOMAIN resp.content :
           /\ ~Child(i).err
           /\ \E v \in Visits :
                  /\ log[v].cu.url = Child(i).cu.url
                  /\ log[v].cu.depth > Child(i).cu.depth
           /\ Child(i).cu.url \notin FrontierURLs

=============================================================================
